---- MODULE Spec2Model ----
(***************************************************************************)
(* Model of CdkAwsApiGatewaySecurityStack                                  *)
(* (lib/cdk-aws-api-gateway-security-stack.ts).                            *)
(*                                                                         *)
(* The constructor declares a Cognito user pool with a resource server,    *)
(* two app clients, an HTTP API with a JWT (user pool) authorizer and two  *)
(* routes in front of two Lambda functions.  The model has two phases:     *)
(*   - construction: one step per statement of the constructor, in source  *)
(*     order, each adding the construct the statement declares;            *)
(*   - deployed: callers sign up, obtain tokens from the user pool and     *)
(*     send HTTP requests to the API.  The user pool and the gateway act   *)
(*     on the declared configuration only: every guard of the deployed     *)
(*     phase reads the constructs built in the first phase.                *)
(***************************************************************************)
EXTENDS Naturals, Sequences, FiniteSets

VARIABLES
    pc,            \* position in the constructor, then "deployed"
    userPools,     \* cognito.UserPool constructs
    resourceServers,
    domains,
    clients,       \* cognito.UserPoolClient constructs
    authorizers,   \* HttpUserPoolAuthorizer constructs
    functions,     \* NodejsFunction constructs
    httpApis,
    routes,        \* HttpRoute constructs, one per (path, method)
    outputs,       \* CfnOutput names
    users,         \* users signed up in the deployed user pool
    wallet,        \* tokens the callers hold
    lastToken,     \* outcome of the last token request
    lastResponse   \* the last HTTP request and what the API did with it

vars == <<pc, userPools, resourceServers, domains, clients, authorizers,
          functions, httpApis, routes, outputs, users, wallet, lastToken,
          lastResponse>>

constructs == <<userPools, resourceServers, domains, clients, authorizers,
                functions, httpApis, routes, outputs>>

runtime == <<users, wallet, lastToken, lastResponse>>

\* ------------------------------------------------------------ bounds

\* Tokens the callers hold at once.
MaxTokens == 2

\* ------------------------------------------------- declared resources

UserPoolProps ==
    [ id                |-> "userpool",
      userPoolName      |-> "my-user-pool",
      removalPolicy     |-> "DESTROY",
      selfSignUpEnabled |-> TRUE,
      signInAliases     |-> {"email"},
      autoVerify        |-> {"email"},
      passwordPolicy    |-> [ minLength        |-> 6,
                              requireLowercase |-> FALSE,
                              requireDigits    |-> FALSE,
                              requireUppercase |-> FALSE,
                              requireSymbols   |-> FALSE ],
      accountRecovery   |-> "EMAIL_ONLY" ]

publicScope == [ scopeName |-> "public", scopeDescription |-> "Read-only access" ]

secureScope == [ scopeName |-> "secure", scopeDescription |-> "Full access" ]

ResourceServerProps(pool) ==
    [ id         |-> "ResourceServer",
      userPool   |-> pool.id,
      identifier |-> "resource",
      scopes     |-> {publicScope, secureScope} ]

DomainProps(pool) ==
    [ id           |-> "CognitoDomain",
      userPool     |-> pool.id,
      domainPrefix |-> "client-credentials-demo" ]

\* cognito.OAuthScope.resourceServer(server, scope): the scope string
\* "<resource server identifier>/<scope name>".
OAuthScope_resourceServer(server, scope) ==
    server.identifier \o "/" \o scope.scopeName

\* Mutant: the read-only client copied from the full-access one, scopes included.
ReadOnlyClientProps_BothScopes(pool, server) ==
    [ id        |-> "read-only-client",
      userPool  |-> pool.id,
      authFlows |-> {"adminUserPassword", "userPassword", "custom", "userSrp"},
      oAuth     |-> [ scopes |-> { OAuthScope_resourceServer(server, publicScope),
                                   OAuthScope_resourceServer(server, secureScope) },
                      flows  |-> {"clientCredentials"} ],
      generateSecret             |-> TRUE,
      supportedIdentityProviders |-> {"COGNITO"} ]

\* Mutant: the read-only client granted a scope the resource server never got.
ReadOnlyClientProps_UndeclaredScope(pool, server) ==
    [ id        |-> "read-only-client",
      userPool  |-> pool.id,
      authFlows |-> {"adminUserPassword", "userPassword", "custom", "userSrp"},
      oAuth     |-> [ scopes |-> { OAuthScope_resourceServer(server,
                                       [ scopeName |-> "read",
                                         scopeDescription |-> "Read-only access" ]) },
                      flows  |-> {"clientCredentials"} ],
      generateSecret             |-> TRUE,
      supportedIdentityProviders |-> {"COGNITO"} ]

ReadOnlyClientProps(pool, server) ==
    [ id        |-> "read-only-client",
      userPool  |-> pool.id,
      authFlows |-> {"adminUserPassword", "userPassword", "custom", "userSrp"},
      oAuth     |-> [ scopes |-> { OAuthScope_resourceServer(server, publicScope) },
                      flows  |-> {"clientCredentials"} ],
      generateSecret             |-> TRUE,
      supportedIdentityProviders |-> {"COGNITO"} ]

\* Mutant: the full-access client granted the secure scope alone.
FullAccessClientProps_SecureOnly(pool, server) ==
    [ id        |-> "full-access-client",
      userPool  |-> pool.id,
      authFlows |-> {"adminUserPassword", "userPassword", "custom", "userSrp"},
      oAuth     |-> [ scopes |-> { OAuthScope_resourceServer(server, secureScope) },
                      flows  |-> {"clientCredentials"} ],
      generateSecret             |-> TRUE,
      supportedIdentityProviders |-> {"COGNITO"} ]

\* Mutant: the full-access client on the authorization-code grant.
FullAccessClientProps_CodeGrant(pool, server) ==
    [ id        |-> "full-access-client",
      userPool  |-> pool.id,
      authFlows |-> {"adminUserPassword", "userPassword", "custom", "userSrp"},
      oAuth     |-> [ scopes |-> { OAuthScope_resourceServer(server, publicScope),
                                   OAuthScope_resourceServer(server, secureScope) },
                      flows  |-> {"authorizationCodeGrant"} ],
      generateSecret             |-> TRUE,
      supportedIdentityProviders |-> {"COGNITO"} ]

FullAccessClientProps(pool, server) ==
    [ id        |-> "full-access-client",
      userPool  |-> pool.id,
      authFlows |-> {"adminUserPassword", "userPassword", "custom", "userSrp"},
      oAuth     |-> [ scopes |-> { OAuthScope_resourceServer(server, publicScope),
                                   OAuthScope_resourceServer(server, secureScope) },
                      flows  |-> {"clientCredentials"} ],
      generateSecret             |-> TRUE,
      supportedIdentityProviders |-> {"COGNITO"} ]

\* Mutant: the authorizer's audience widened by a client the stack does not declare.
AuthorizerProps_ExtraClient(pool, registered) ==
    [ id              |-> "user-pool-authorizer",
      userPool        |-> pool.id,
      userPoolClients |-> { c.id : c \in registered } \cup {"unlisted-client"} ]

AuthorizerProps(pool, registered) ==
    [ id              |-> "user-pool-authorizer",
      userPool        |-> pool.id,
      userPoolClients |-> { c.id : c \in registered } ]

SecureLambdaProps ==
    [ id      |-> "get-user-info-lambda",
      runtime |-> "NODEJS_14_X",
      handler |-> "secure",
      entry   |-> "/../src/secure/index.ts" ]

PublicLambdaProps ==
    [ id      |-> "get-app-info-lambda",
      runtime |-> "NODEJS_14_X",
      handler |-> "app",
      entry   |-> "/../src/public/index.ts" ]

HttpApiProps ==
    [ id          |-> "apigwv2-demo",
      apiName     |-> "http-api-demo",
      description |-> "HTTP API example" ]

\* Mutant: the secure route asking for the public scope.
SecureRouteOptions_PublicScope(fn, auth) ==
    [ integration         |-> [ id |-> "secure-fn-integration", handler |-> fn.id ],
      path                |-> "/api/secure",
      methods             |-> {"GET"},
      authorizer          |-> auth.id,
      authorizationScopes |-> {"resource/public"} ]

\* Mutant: the secure route integrated with the public function.
SecureRouteOptions_PublicLambda(fn, auth) ==
    [ integration         |-> [ id |-> "secure-fn-integration",
                                handler |-> "get-app-info-lambda" ],
      path                |-> "/api/secure",
      methods             |-> {"GET"},
      authorizer          |-> auth.id,
      authorizationScopes |-> {"resource/secure"} ]

\* Mutant: the secure route's scope string misspelt.
SecureRouteOptions_Misspelt(fn, auth) ==
    [ integration         |-> [ id |-> "secure-fn-integration", handler |-> fn.id ],
      path                |-> "/api/secure",
      methods             |-> {"GET"},
      authorizer          |-> auth.id,
      authorizationScopes |-> {"resource/secured"} ]

SecureRouteOptions(fn, auth) ==
    [ integration         |-> [ id |-> "secure-fn-integration", handler |-> fn.id ],
      path                |-> "/api/secure",
      methods             |-> {"GET"},
      authorizer          |-> auth.id,
      authorizationScopes |-> {"resource/secure"} ]

\* Mutant: the public route asking for the secure scope.
PublicRouteOptions_SecureScope(fn, auth) ==
    [ integration         |-> [ id |-> "public-fn-integration", handler |-> fn.id ],
      path                |-> "/api/public",
      methods             |-> {"GET"},
      authorizer          |-> auth.id,
      authorizationScopes |-> {"resource/secure"} ]

\* Mutant: the public route open to POST as well.
PublicRouteOptions_GetAndPost(fn, auth) ==
    [ integration         |-> [ id |-> "public-fn-integration", handler |-> fn.id ],
      path                |-> "/api/public",
      methods             |-> {"GET", "POST"},
      authorizer          |-> auth.id,
      authorizationScopes |-> {"resource/public"} ]

PublicRouteOptions(fn, auth) ==
    [ integration         |-> [ id |-> "public-fn-integration", handler |-> fn.id ],
      path                |-> "/api/public",
      methods             |-> {"GET"},
      authorizer          |-> auth.id,
      authorizationScopes |-> {"resource/public"} ]

\* httpApi.addRoutes(options): one route per method of the options.
addRoutes(api, options) ==
    { [ api                 |-> api.id,
        path                |-> options.path,
        method              |-> m,
        integration         |-> options.integration,
        authorizer          |-> options.authorizer,
        authorizationScopes |-> options.authorizationScopes ] : m \in options.methods }

\* The single construct of a kind declared so far.
The(S) == CHOOSE x \in S : TRUE

ById(S, id) == CHOOSE x \in S : x.id = id

\* ---------------------------------------------------------- constructor

Init ==
    /\ pc = "userPool"
    /\ userPools = {}
    /\ resourceServers = {}
    /\ domains = {}
    /\ clients = {}
    /\ authorizers = {}
    /\ functions = {}
    /\ httpApis = {}
    /\ routes = {}
    /\ outputs = {}
    /\ users = {}
    /\ wallet = {}
    /\ lastToken = "none"
    /\ lastResponse = [ method |-> "", path |-> "", authorization |-> <<>>,
                        status |-> 0, invoked |-> "none" ]

CreateUserPool ==
    /\ pc = "userPool"
    /\ userPools' = userPools \cup {UserPoolProps}
    /\ pc' = "resourceServer"
    /\ UNCHANGED <<resourceServers, domains, clients, authorizers, functions,
                   httpApis, routes, outputs, runtime>>

AddResourceServer ==
    /\ pc = "resourceServer"
    /\ resourceServers' = resourceServers \cup {ResourceServerProps(The(userPools))}
    /\ pc' = "domain"
    /\ UNCHANGED <<userPools, domains, clients, authorizers, functions,
                   httpApis, routes, outputs, runtime>>

AddDomain ==
    /\ pc = "domain"
    /\ domains' = domains \cup {DomainProps(The(userPools))}
    /\ pc' = "readOnlyClient"
    /\ UNCHANGED <<userPools, resourceServers, clients, authorizers, functions,
                   httpApis, routes, outputs, runtime>>

CreateReadOnlyClient ==
    /\ pc = "readOnlyClient"
    /\ clients' = clients \cup {ReadOnlyClientProps(The(userPools), The(resourceServers))}
    /\ pc' = "fullAccessClient"
    /\ UNCHANGED <<userPools, resourceServers, domains, authorizers, functions,
                   httpApis, routes, outputs, runtime>>

CreateFullAccessClient ==
    /\ pc = "fullAccessClient"
    /\ clients' = clients \cup {FullAccessClientProps(The(userPools), The(resourceServers))}
    /\ pc' = "authorizer"
    /\ UNCHANGED <<userPools, resourceServers, domains, authorizers, functions,
                   httpApis, routes, outputs, runtime>>

CreateAuthorizer ==
    /\ pc = "authorizer"
    /\ authorizers' = authorizers \cup {AuthorizerProps(The(userPools), clients)}
    /\ pc' = "secureLambda"
    /\ UNCHANGED <<userPools, resourceServers, domains, clients, functions,
                   httpApis, routes, outputs, runtime>>

CreateSecureLambda ==
    /\ pc = "secureLambda"
    /\ functions' = functions \cup {SecureLambdaProps}
    /\ pc' = "publicLambda"
    /\ UNCHANGED <<userPools, resourceServers, domains, clients, authorizers,
                   httpApis, routes, outputs, runtime>>

CreatePublicLambda ==
    /\ pc = "publicLambda"
    /\ functions' = functions \cup {PublicLambdaProps}
    /\ pc' = "httpApi"
    /\ UNCHANGED <<userPools, resourceServers, domains, clients, authorizers,
                   httpApis, routes, outputs, runtime>>

CreateHttpApi ==
    /\ pc = "httpApi"
    /\ httpApis' = httpApis \cup {HttpApiProps}
    /\ pc' = "secureRoute"
    /\ UNCHANGED <<userPools, resourceServers, domains, clients, authorizers,
                   functions, routes, outputs, runtime>>

AddSecureRoute ==
    /\ pc = "secureRoute"
    /\ routes' = routes \cup addRoutes(The(httpApis),
                     SecureRouteOptions(ById(functions, SecureLambdaProps.id),
                                        The(authorizers)))
    /\ pc' = "publicRoute"
    /\ UNCHANGED <<userPools, resourceServers, domains, clients, authorizers,
                   functions, httpApis, outputs, runtime>>

AddPublicRoute ==
    /\ pc = "publicRoute"
    /\ routes' = routes \cup addRoutes(The(httpApis),
                     PublicRouteOptions(ById(functions, PublicLambdaProps.id),
                                        The(authorizers)))
    /\ pc' = "outputs"
    /\ UNCHANGED <<userPools, resourceServers, domains, clients, authorizers,
                   functions, httpApis, outputs, runtime>>

AddOutputs ==
    /\ pc = "outputs"
    /\ outputs' = outputs \cup {"region", "userPoolId", "apiUrl"}
    /\ pc' = "deployed"
    /\ UNCHANGED <<userPools, resourceServers, domains, clients, authorizers,
                   functions, httpApis, routes, runtime>>

Construct ==
    \/ CreateUserPool
    \/ AddResourceServer
    \/ AddDomain
    \/ CreateReadOnlyClient
    \/ CreateFullAccessClient
    \/ CreateAuthorizer
    \/ CreateSecureLambda
    \/ CreatePublicLambda
    \/ CreateHttpApi
    \/ AddSecureRoute
    \/ AddPublicRoute
    \/ AddOutputs

\* ------------------------------------------------------------- deployed

\* The user pool API flow each authFlows flag of a client enables.
AuthFlowFlag(flow) ==
    CASE flow = "ADMIN_USER_PASSWORD_AUTH" -> "adminUserPassword"
      [] flow = "USER_PASSWORD_AUTH"       -> "userPassword"
      [] flow = "CUSTOM_AUTH"              -> "custom"
      [] flow = "USER_SRP_AUTH"            -> "userSrp"

AuthFlows == {"ADMIN_USER_PASSWORD_AUTH", "USER_PASSWORD_AUTH", "CUSTOM_AUTH",
              "USER_SRP_AUTH"}

\* The OAuth grant each oAuth.flows flag of a client enables.
OAuthFlowFlag(grantType) ==
    CASE grantType = "client_credentials" -> "clientCredentials"
      [] grantType = "authorization_code" -> "authorizationCodeGrant"

GrantTypes == {"client_credentials", "authorization_code"}

\* Scope strings a token request may name.
ScopeNames == {"resource/public", "resource/secure"}

\* The scope of an access token from the user pool API (no OAuth scope).
UserPoolApiScope == "aws.cognito.signin.user.admin"

Emails == {"user@example.com"}

PasswordLengths == {5, 6}

\* Self-service sign-up at the user pool, subject to its password policy.
SignUp(email, passwordLength) ==
    /\ pc = "deployed"
    /\ LET pool == The(userPools) IN
         /\ pool.selfSignUpEnabled
         /\ "email" \in pool.signInAliases
         /\ passwordLength >= pool.passwordPolicy.minLength
    /\ users' = users \cup {email}
    /\ UNCHANGED <<pc, constructs, wallet, lastToken, lastResponse>>

\* The answer of the user pool domain's token endpoint to a request of
\* client c: the token issued, or the OAuth error.
TokenEndpointResult(c, grantType, secretOk, requested, signedIn) ==
    IF c.generateSecret /\ ~secretOk
    THEN [ error |-> "invalid_client" ]
    ELSE IF OAuthFlowFlag(grantType) \notin c.oAuth.flows
    THEN [ error |-> "unauthorized_client" ]
    ELSE IF grantType = "authorization_code" /\ ~signedIn
    THEN [ error |-> "invalid_grant" ]
    ELSE IF ~(requested \subseteq c.oAuth.scopes)
    THEN [ error |-> "invalid_scope" ]
    ELSE [ error |-> "ok",
           token |-> [ iss       |-> c.userPool,
                       client_id |-> c.id,
                       scope     |-> IF requested = {} THEN c.oAuth.scopes
                                                       ELSE requested,
                       grant     |-> grantType,
                       secret    |-> secretOk ] ]

\* POST /oauth2/token on the user pool domain.
TokenEndpoint(c, grantType, secretOk, requested) ==
    /\ pc = "deployed"
    /\ domains # {}
    /\ Cardinality(wallet) < MaxTokens
    /\ LET res == TokenEndpointResult(c, grantType, secretOk, requested, users # {}) IN
         /\ lastToken' = res.error
         /\ wallet' = IF res.error = "ok" THEN wallet \cup {res.token} ELSE wallet
    /\ UNCHANGED <<pc, constructs, users, lastResponse>>

\* The answer of the user pool API (InitiateAuth / AdminInitiateAuth) to a
\* sign-in of a user through client c.
InitiateAuthResult(c, flow, secretOk, known) ==
    IF AuthFlowFlag(flow) \notin c.authFlows
    THEN [ error |-> "InvalidParameterException" ]
    ELSE IF (c.generateSecret /\ ~secretOk) \/ ~known
    THEN [ error |-> "NotAuthorizedException" ]
    ELSE [ error |-> "ok",
           token |-> [ iss       |-> c.userPool,
                       client_id |-> c.id,
                       scope     |-> {UserPoolApiScope},
                       grant     |-> flow,
                       secret    |-> secretOk ] ]

InitiateAuth(c, flow, secretOk, email) ==
    /\ pc = "deployed"
    /\ Cardinality(wallet) < MaxTokens
    /\ LET res == InitiateAuthResult(c, flow, secretOk, email \in users) IN
         /\ lastToken' = res.error
         /\ wallet' = IF res.error = "ok" THEN wallet \cup {res.token} ELSE wallet
    /\ UNCHANGED <<pc, constructs, users, lastResponse>>

\* Tokens minted outside this stack: by another issuer, or by this user pool
\* for an app client the stack does not declare.
ExternalTokens ==
    { [ iss       |-> i,
        client_id |-> "unlisted-client",
        scope     |-> ScopeNames,
        grant     |-> "client_credentials",
        secret    |-> TRUE ] : i \in {"other-issuer"} \cup { p.id : p \in userPools } }

ObtainExternalToken(t) ==
    /\ pc = "deployed"
    /\ Cardinality(wallet) < MaxTokens
    /\ wallet' = wallet \cup {t}
    /\ UNCHANGED <<pc, constructs, users, lastToken, lastResponse>>

\* The JWT authorizer of a route: the status it answers with (200: allow).
Authorize(auth, requiredScopes, authorization) ==
    IF authorization = <<>> THEN 401
    ELSE LET t == authorization[1] IN
         IF t.iss # auth.userPool THEN 401
         ELSE IF t.client_id \notin auth.userPoolClients THEN 401
         ELSE IF requiredScopes # {} /\ t.scope \cap requiredScopes = {} THEN 403
         ELSE 200

\* What the HTTP API does with a request: the status and the function invoked.
Dispatch(method, path, authorization) ==
    LET matching == { r \in routes : r.path = path /\ r.method = method } IN
    IF matching = {} THEN [ status |-> 404, invoked |-> "none" ]
    ELSE LET r      == The(matching)
             status == Authorize(ById(authorizers, r.authorizer),
                                 r.authorizationScopes, authorization)
         IN  IF status = 200
             THEN [ status |-> 200, invoked |-> r.integration.handler ]
             ELSE [ status |-> status, invoked |-> "none" ]

Methods == {"GET", "POST"}

Paths == {"/api/public", "/api/secure", "/api/other"}

Request(method, path, authorization) ==
    /\ pc = "deployed"
    /\ LET res == Dispatch(method, path, authorization) IN
         lastResponse' = [ method        |-> method,
                           path          |-> path,
                           authorization |-> authorization,
                           status        |-> res.status,
                           invoked       |-> res.invoked ]
    /\ UNCHANGED <<pc, constructs, users, wallet, lastToken>>

Serve ==
    \/ \E email \in Emails, n \in PasswordLengths : SignUp(email, n)
    \/ \E c \in clients, g \in GrantTypes, ok \in BOOLEAN, req \in SUBSET ScopeNames :
           TokenEndpoint(c, g, ok, req)
    \/ \E c \in clients, f \in AuthFlows, ok \in BOOLEAN, email \in Emails :
           InitiateAuth(c, f, ok, email)
    \/ \E t \in ExternalTokens : ObtainExternalToken(t)
    \/ \E m \in Methods, p \in Paths,
          a \in {<<>>} \cup { <<t>> : t \in wallet } : Request(m, p, a)

Next == Construct \/ Serve

Spec == Init /\ [][Next]_vars

\* -------------------------------------------------------------- claims

\* The names the claims use.
ReadOnlyId == "read-only-client"

FullAccessId == "full-access-client"

RegisteredIds == {ReadOnlyId, FullAccessId}

secureLambda == "get-user-info-lambda"

publicLambda == "get-app-info-lambda"

RoutePaths == {"/api/public", "/api/secure"}

RequiredScope(path) ==
    IF path = "/api/public" THEN "resource/public" ELSE "resource/secure"

\* The last request carried a token.
HasToken == lastResponse.authorization # <<>>

Bearer == lastResponse.authorization[1]

\* The last request went to the route GET <path>.
At(path) == lastResponse.method = "GET" /\ lastResponse.path = path

\* Token t was issued by the stack's user pool to one of its two clients.
IssuedToRegistered(t) ==
    /\ t.iss \in { p.id : p \in userPools }
    /\ t.client_id \in RegisteredIds

\* C1: an entry point is invoked only for a request to GET /api/public or
\* GET /api/secure whose bearer token was issued by the user pool to one of
\* the two registered clients and carries that route's required scope.
C1_InvokedOnlyIfAccepted ==
    lastResponse.invoked # "none" =>
        /\ lastResponse.method = "GET"
        /\ lastResponse.path \in RoutePaths
        /\ lastResponse.status = 200
        /\ HasToken
        /\ IssuedToRegistered(Bearer)
        /\ RequiredScope(lastResponse.path) \in Bearer.scope

C1_Witness ==
    /\ At("/api/secure")
    /\ lastResponse.invoked = secureLambda

\* C2: a client-credentials token of the read-only client carries only
\* resource/public, and presented at GET /api/secure it is refused for its
\* scope (403) and no entry point is invoked.
C2_ReadOnlyTokenRefusedAtSecure ==
    /\ \A t \in wallet :
           (IssuedToRegistered(t) /\ t.client_id = ReadOnlyId
               /\ t.grant = "client_credentials")
           => (t.scope # {} /\ t.scope \subseteq {"resource/public"})
    /\ (At("/api/secure") /\ HasToken /\ IssuedToRegistered(Bearer)
           /\ Bearer.client_id = ReadOnlyId /\ Bearer.grant = "client_credentials")
       => (lastResponse.status = 403 /\ lastResponse.invoked = "none")

C2_Witness ==
    /\ At("/api/secure")
    /\ HasToken
    /\ IssuedToRegistered(Bearer)
    /\ Bearer.client_id = ReadOnlyId
    /\ Bearer.grant = "client_credentials"
    /\ lastResponse.status = 403

\* C3: a token of the full-access client carrying resource/public and
\* resource/secure, presented at GET /api/secure, is accepted and the function
\* invoked is secureLambda, not publicLambda.
C3_FullAccessTokenReachesSecure ==
    (At("/api/secure") /\ HasToken /\ IssuedToRegistered(Bearer)
        /\ Bearer.client_id = FullAccessId
        /\ Bearer.scope = {"resource/public", "resource/secure"})
    => /\ lastResponse.status = 200
       /\ lastResponse.invoked = secureLambda
       /\ lastResponse.invoked # publicLambda

C3_Witness ==
    /\ At("/api/secure")
    /\ HasToken
    /\ Bearer.client_id = FullAccessId
    /\ Bearer.scope = {"resource/public", "resource/secure"}
    /\ lastResponse.status = 200

\* C4 as stated: any token issued to either client, presented at
\* GET /api/public, is accepted and publicLambda is invoked.
C4_AnyClientTokenReachesPublic ==
    (At("/api/public") /\ HasToken /\ IssuedToRegistered(Bearer))
    => (lastResponse.status = 200 /\ lastResponse.invoked = publicLambda)

\* C4 (amended): a token issued to either client that carries resource/public,
\* presented at GET /api/public, is accepted and publicLambda is invoked.
C4_PublicScopedTokenReachesPublic ==
    (At("/api/public") /\ HasToken /\ IssuedToRegistered(Bearer)
        /\ "resource/public" \in Bearer.scope)
    => (lastResponse.status = 200 /\ lastResponse.invoked = publicLambda)

C4_Witness ==
    /\ At("/api/public")
    /\ HasToken
    /\ IssuedToRegistered(Bearer)
    /\ Bearer.client_id = ReadOnlyId
    /\ lastResponse.invoked = publicLambda

\* C5: a request to either route with no token, or with a token of a client
\* that is not one of the authorizer's user pool clients, is refused and no
\* entry point is invoked.
C5_UnregisteredRefused ==
    (lastResponse.method = "GET" /\ lastResponse.path \in RoutePaths
        /\ (~HasToken \/ Bearer.client_id \notin RegisteredIds))
    => (lastResponse.status = 401 /\ lastResponse.invoked = "none")

C5_Witness ==
    /\ At("/api/secure")
    /\ HasToken
    /\ Bearer.client_id \notin RegisteredIds
    /\ Bearer.iss \in { p.id : p \in userPools }
    /\ "resource/secure" \in Bearer.scope
    /\ lastResponse.status = 401

\* C6: the resource server is 'resource' with the scopes public and secure,
\* and every client's granted OAuth scopes are among the scope strings
\* declared on it.
C6_ClientScopesDeclared ==
    /\ \A rs \in resourceServers :
           /\ rs.identifier = "resource"
           /\ { sc.scopeName : sc \in rs.scopes } = {"public", "secure"}
    /\ \A c \in clients :
           c.oAuth.scopes \subseteq
               { rs.identifier \o "/" \o sc.scopeName :
                     rs \in resourceServers, sc \in UNION { r.scopes : r \in resourceServers } }

C6_Witness ==
    /\ { c.id : c \in clients } = RegisteredIds
    /\ \A c \in clients : c.oAuth.scopes # {}

\* C7: the full-access client's granted scopes strictly contain the read-only
\* client's, resource/secure being one the read-only client lacks.
C7_FullStrictlyContainsReadOnly ==
    \A ro \in clients, full \in clients :
        (ro.id = ReadOnlyId /\ full.id = FullAccessId)
        => /\ ro.oAuth.scopes \subseteq full.oAuth.scopes
           /\ ro.oAuth.scopes # full.oAuth.scopes
           /\ "resource/secure" \in full.oAuth.scopes \ ro.oAuth.scopes

C7_Witness ==
    /\ \E c \in clients : c.id = ReadOnlyId /\ c.oAuth.scopes # {}
    /\ \E c \in clients : c.id = FullAccessId

\* C8: every route requires exactly the scope string
\* '<identifier>/<scope name>' of a scope declared on the resource server
\* 'resource'.
C8_RouteScopesDeclared ==
    \A r \in routes :
        /\ Cardinality(r.authorizationScopes) = 1
        /\ \A s \in r.authorizationScopes :
               \E rs \in resourceServers : \E sc \in rs.scopes :
                   /\ rs.identifier = "resource"
                   /\ s = rs.identifier \o "/" \o sc.scopeName

C8_Witness ==
    { r.path : r \in routes } = RoutePaths

\* C9: the deployed API has exactly the two routes GET /api/public and
\* GET /api/secure, each with one function and one required scope, both with
\* the one authorizer; a request for another path or method invokes nothing.
C9_ExactlyTwoGetRoutes ==
    /\ pc = "deployed" =>
           /\ { <<r.method, r.path>> : r \in routes }
                  = { <<"GET", "/api/public">>, <<"GET", "/api/secure">> }
           /\ Cardinality(routes) = 2
           /\ Cardinality(authorizers) = 1
           /\ \A r \in routes :
                  /\ r.integration.handler \in { f.id : f \in functions }
                  /\ Cardinality(r.authorizationScopes) = 1
                  /\ r.authorizer \in { a.id : a \in authorizers }
           /\ \A r1 \in routes, r2 \in routes :
                  /\ r1.authorizer = r2.authorizer
                  /\ r1.path # r2.path => r1.integration.handler # r2.integration.handler
    /\ (lastResponse.status # 0
           /\ (lastResponse.method # "GET" \/ lastResponse.path \notin RoutePaths))
       => (lastResponse.status = 404 /\ lastResponse.invoked = "none")

C9_Witness ==
    /\ lastResponse.method = "POST"
    /\ lastResponse.path = "/api/public"
    /\ HasToken
    /\ IssuedToRegistered(Bearer)
    /\ "resource/public" \in Bearer.scope
    /\ lastResponse.status = 404

\* C10 as stated: every token issued to one of the two clients was issued by
\* the client-credentials flow on the client's identifier and secret.
C10_OnlyClientCredentialsTokens ==
    \A t \in wallet :
        IssuedToRegistered(t) => (t.grant = "client_credentials" /\ t.secret)

\* C10 (amended): client-credentials is the only OAuth grant of either client,
\* so every token issued to them that carries a resource-server scope was
\* issued by the client-credentials flow on the client's identifier and
\* secret; tokens of the enabled authentication flows carry none.
C10_ScopedTokensOnlyByClientCredentials ==
    /\ \A c \in clients : c.oAuth.flows = {"clientCredentials"} /\ c.generateSecret
    /\ \A t \in wallet :
           (IssuedToRegistered(t) /\ t.scope \cap ScopeNames # {})
           => (t.grant = "client_credentials" /\ t.secret)
    /\ \A t \in wallet :
           (IssuedToRegistered(t) /\ t.grant # "client_credentials")
           => t.scope \cap ScopeNames = {}

C10_Witness ==
    \E t1 \in wallet, t2 \in wallet :
        /\ IssuedToRegistered(t1) /\ IssuedToRegistered(t2)
        /\ t1.client_id = t2.client_id
        /\ t1.grant = "client_credentials"
        /\ t2.grant \in AuthFlows
====
